---------------------------- MODULE Spec2Model ----------------------------
(***************************************************************************)
(* State-machine model of the divisor-search compiler                      *)
(* (compiler/src/main.rs, fn run / entrypoint / main).                     *)
(*                                                                         *)
(* One orchestrating thread parses the command line, opens the files,      *)
(* reads the hash matrix window by window, and for every record either     *)
(* replays a cached result, takes the zero fast path, or runs a fork-join  *)
(* pool of workers racing on three atomics (div, pass, rdiv).  At the end  *)
(* the encoder rebases the raw results and writes the output table.        *)
(*                                                                         *)
(* Integers are i32 at their real width (I32Min..I32Max); the matrix       *)
(* geometry (45000 columns, 32000 processed, windows of 8000) is scaled    *)
(* down by the Scaled* bounds, everything else is as in the source.        *)
(***************************************************************************)
EXTENDS Integers, Sequences, FiniteSets, TLC

(***************************************************************************)
(* Bounds of the model.                                                    *)
(***************************************************************************)
\* Columns per row of the input database (45000 in the source).
ScaledRowLen == 5
\* Columns that are processed at all (32000 in the source).
ScaledProcessed == 4
\* Columns per window (chunk_size, 8000 in the source).
ScaledChunkSize == 2
\* Largest thread count given on the command line.
MaxThreads == 2
\* Largest small start divisor given on the command line.
MaxDivStart == 2
\* How many times the process may be started (1 + interruptions).
MaxRuns == 2

(***************************************************************************)
(* Program constants.                                                      *)
(***************************************************************************)
I32Max == 2147483647
U16Max == 65535
DefaultThreads == 4
DefaultDivStart == 1
I32Min == -I32Max - 1

row_len == ScaledRowLen
chunk_size == ScaledChunkSize
chunk_limit == ScaledProcessed \div chunk_size
TotalRecords == chunk_limit * chunk_size

(***************************************************************************)
(* i32 arithmetic, computed without leaving the 32-bit range.              *)
(***************************************************************************)
Abs(x) == IF x < 0 THEN -x ELSE x

\* `fetch_add(1) as i32`: the low 32 bits of the counter after the add.
WrappingInc(x) == IF x = I32Max THEN I32Min ELSE x + 1

\* a - b overflows i32.
SubOverflows(a, b) ==
    \/ b < 0 /\ a > I32Max + b
    \/ b > 0 /\ a < I32Min + b

\* a - b in two's complement (release build).
WrappingSub(a, b) ==
    IF b < 0 /\ a > I32Max + b THEN (a - I32Max - 1) + (I32Min - b)
    ELSE IF b > 0 /\ a < I32Min + b THEN (a - I32Min) + (I32Max - b) + 1
    ELSE a - b

\* `hash % current_div` panics: division by zero, or i32::MIN % -1.
RemPanics(h, d) == d = 0 \/ (h = I32Min /\ d = -1)

\* Rust's `%` on i32 (remainder truncated toward zero), for d where it
\* does not panic.
Rem(h, d) ==
    IF d = I32Min THEN (IF h = I32Min THEN 0 ELSE h)
    ELSE IF h = I32Min THEN -(((I32Max % Abs(d)) + 1) % Abs(d))
    ELSE IF h < 0 THEN -(Abs(h) % Abs(d))
    ELSE h % Abs(d)

\* `value as u16`: the low 16 bits.
AsU16(v) == v % (U16Max + 1)

(***************************************************************************)
(* byteorder: write_i32 / read_i32 (native endian, little-endian target).  *)
(***************************************************************************)
LeBytes(w, top) ==
    << w % 256, (w \div 256) % 256, (w \div 65536) % 256,
       (w \div 16777216) + top >>

I32ToBytes(v) == IF v < 0 THEN LeBytes(v - I32Min, 128) ELSE LeBytes(v, 0)

I32FromBytes(b) ==
    LET low == b[1] + 256 * b[2] + 65536 * b[3]
    IN  IF b[4] >= 128 THEN (low + 16777216 * (b[4] - 128)) + I32Min
        ELSE low + 16777216 * b[4]

RECURSIVE EncodeAll(_)
EncodeAll(vals) ==
    IF vals = << >> THEN << >>
    ELSE I32ToBytes(Head(vals)) \o EncodeAll(Tail(vals))

\* The complete 4-byte entries of a cache file, decoded in order.
RECURSIVE DecodeAll(_)
DecodeAll(bytes) ==
    IF Len(bytes) < 4 THEN << >>
    ELSE << I32FromBytes(SubSeq(bytes, 1, 4)) >>
         \o DecodeAll(SubSeq(bytes, 5, Len(bytes)))


(***************************************************************************)
(* Inputs: command lines, input databases, cache files found at startup.   *)
(***************************************************************************)
\* An option's text: << >> when the flag is absent, << n >> when it is the
\* decimal text of n.
NoOpt == << >>

\* str::parse::<usize>: the text of a negative number is rejected.
ParsesAsUsize(s) == s[1] >= 0

ThreadOpts == { << t >> : t \in 0..MaxThreads }
DivStartOpts ==
    { NoOpt } \cup { << d >> : d \in (0..MaxDivStart) \ { DefaultDivStart } }
              \cup { << I32Max >> }

\* Command lines that pass argument parsing.
GoodCmdLines ==
    [ parse_ok : { TRUE }, db_in : { TRUE }, db_out : { TRUE },
      calc_cache : { TRUE }, threads : ThreadOpts, div_start : DivStartOpts ]

\* Command lines with a configuration error (one of each kind, and one
\* that leaves both numeric options to their defaults).
BadCmdLines ==
    LET ok == [ parse_ok |-> TRUE, db_in |-> TRUE, db_out |-> TRUE,
                calc_cache |-> TRUE, threads |-> NoOpt, div_start |-> NoOpt ]
    IN  { [ok EXCEPT !.parse_ok = FALSE],
          [ok EXCEPT !.db_in = FALSE],
          [ok EXCEPT !.db_out = FALSE],
          [ok EXCEPT !.calc_cache = FALSE],
          [ok EXCEPT !.threads = << -1 >>],
          [ok EXCEPT !.div_start = << -1 >>],
          [ok EXCEPT !.db_in = FALSE, !.threads = << -1 >>] }

\* One row of the database: the pattern repeated over row_len columns.
Row(pat) == [ c \in 1..row_len |-> pat[((c - 1) % Len(pat)) + 1] ]

\* Input databases (sequences of i32): shorter than one row, one row, two
\* rows and a partial third, one row of extreme values.
Databases ==
    { << 5 >>,
      Row(<< 7, 0, 1, -3 >>),
      Row(<< 2, 3, 0, 1 >>) \o Row(<< 3, 0, 2, -2 >>) \o << 7 >>,
      Row(<< I32Max, I32Min >>) }

\* Values found in a cache file at startup.
CacheVals == { 0, 3, -3, U16Max + 3 }

\* Cache files found at startup, as bytes: up to two entries of CacheVals,
\* one file longer than the run needs, and files ending in a torn entry.
CacheFiles ==
    { EncodeAll(s) : s \in UNION { [ 1..n -> CacheVals ] : n \in 0..2 } }
    \cup { EncodeAll([ k \in 1..(TotalRecords + 1) |-> k + 1 ]) }
    \cup { << 7 >>, I32ToBytes(3) \o << 1, 0 >> }

(***************************************************************************)
(* State.                                                                  *)
(***************************************************************************)
VARIABLES
    opts,           \* the command line
    in_db_exists,   \* the input database file exists
    in_db,          \* its contents, as i32 values
    cache_exists,   \* the cache file exists
    cache,          \* its contents, as bytes
    cache_pos,      \* the cache file handle's cursor (byte offset)
    out_exists,     \* the output file exists
    out_db,         \* its contents, as u16 values
    pc,             \* where the orchestrating thread is
    err,            \* the Error the run ended with, or "none"
    threads_count, div_start, words_count,
    chunk_index, chunk, seed_sample,
    divs_found, min_div, max_div,
    div, pass, rdiv,        \* the three atomics of one search episode
    wpc,            \* each worker's position
    current_div,    \* each worker's claimed candidate
    enc_i,          \* the encoder's position in divs_found
    wrapped,        \* an i32 overflow wrapped: the build has no overflow checks
    origin,         \* history: how each entry of divs_found was obtained
    claimed,        \* history: candidates claimed in the current episode
    late,           \* history: per worker, candidates claimed while the flag was set
    cache_start,    \* history: the cache file when this run started
    run_no          \* history: how many times the process was started

files == << in_db_exists, in_db, cache_exists, cache, out_exists, out_db >>
config == << threads_count, div_start, words_count >>
window == << chunk_index, chunk, seed_sample >>
results == << divs_found, min_div, max_div, origin >>
episode == << div, pass, rdiv, wpc, current_div, claimed, late >>
history == << cache_start, run_no >>
vars == << opts, files, cache_pos, pc, err, config, window, results,
           episode, enc_i, wrapped, history >>

\* The process-local state right after exec, before main runs.
Fresh ==
    /\ pc = "start"
    /\ err = "none"
    /\ threads_count = 0 /\ div_start = 0 /\ words_count = 0
    /\ chunk_index = 0 /\ chunk = 0 /\ seed_sample = << >>
    /\ divs_found = << >> /\ min_div = I32Max /\ max_div = -1
    /\ origin = << >>
    /\ div = 0 /\ pass = FALSE /\ rdiv = 0
    /\ wpc = << >> /\ current_div = << >> /\ claimed = << >>
    /\ late = << >>
    /\ enc_i = 0
    /\ wrapped = FALSE
    /\ cache_pos = 0

Init ==
    /\ opts \in GoodCmdLines \cup BadCmdLines
    /\ in_db_exists \in BOOLEAN
    /\ in_db \in (IF in_db_exists THEN Databases ELSE { << >> })
    /\ cache_exists \in BOOLEAN
    /\ cache \in (IF cache_exists THEN CacheFiles ELSE { << >> })
    /\ out_exists = FALSE
    /\ out_db = << >>
    /\ Fresh
    /\ cache_start = cache
    /\ run_no = 1

(***************************************************************************)
(* Helpers of the orchestrating thread.                                    *)
(***************************************************************************)
\* The run returns Err(e): main prints the error and usage, exit status 1.
Fail(e) == pc' = "exit1" /\ err' = e

\* matches.opt_str(..).unwrap_or(default), as the text to parse.
OptOr(o, default) == IF o = NoOpt THEN << default >> ELSE o

\* Option handling that takes the start divisor's text without checking
\* that it parses (a mutation of CmdArgsError).
CmdArgsErrorSkipsDivStart(o) ==
    IF ~o.parse_ok THEN "Getopts"
    ELSE IF ~o.db_in THEN "NoInDbFileProvided"
    ELSE IF ~o.db_out THEN "NoOutDbFileProvided"
    ELSE IF ~o.calc_cache THEN "NoCalcCacheFileProvided"
    ELSE IF ~ParsesAsUsize(OptOr(o.threads, DefaultThreads))
         THEN "InvalidThreadsValue"
    ELSE "none"

\* The first configuration error of the command line, or "none".
CmdArgsError(o) ==
    IF ~o.parse_ok THEN "Getopts"
    ELSE IF ~o.db_in THEN "NoInDbFileProvided"
    ELSE IF ~o.db_out THEN "NoOutDbFileProvided"
    ELSE IF ~o.calc_cache THEN "NoCalcCacheFileProvided"
    ELSE IF ~ParsesAsUsize(OptOr(o.threads, DefaultThreads))
         THEN "InvalidThreadsValue"
    ELSE IF ~ParsesAsUsize(OptOr(o.div_start, DefaultDivStart))
         THEN "InvalidDivStartValue"
    ELSE "none"

\* words_count = (in_db_size / 45000 / 4), in_db_size in bytes.
WordsCount(db) == ((4 * Len(db)) \div row_len) \div 4

\* seed_sample after the read loop of window ci: for each row, the
\* chunk_size values starting at column ci * chunk_size of that row.
ReadWindow(db, wc, ci) ==
    [ k \in 1..(wc * chunk_size) |->
        db[((k - 1) \div chunk_size) * row_len
           + ci * chunk_size + ((k - 1) % chunk_size) + 1] ]

\* The hash values of record `c` of the window: seed_sample[i * chunk_size + c].
Column(sample, wc, c) == [ i \in 1..wc |-> sample[(i - 1) * chunk_size + c + 1] ]

\* A zero scan that stops after the first row (a mutation of ZeroFound).
ZeroFoundFirstRowOnly(col) == Len(col) >= 1 /\ col[1] = 0

\* The zero scan of the record.
ZeroFound(col) == \E i \in 1..Len(col) : col[i] = 0

\* Trackers on the cached path.
CachedMin(m, cached_div) ==
    IF cached_div > 0 /\ cached_div < m THEN cached_div ELSE m
CachedMax(m, cached_div) ==
    IF cached_div > 0 /\ cached_div > m THEN cached_div ELSE m

\* Trackers on the freshly computed path.
FreshMin(m, result_div) == IF result_div < m THEN result_div ELSE m
FreshMax(m, result_div) == IF result_div > m THEN result_div ELSE m

\* A failed read that rewinds the cursor to the start of the file (a
\* mutation of EofPosition).
EofPositionRewinds(bytes, pos) == 0

\* A failed read that leaves the cursor where it was (a mutation of
\* EofPosition).
EofPositionUnmoved(bytes, pos) == pos

\* The cursor after read_exact ran into the end of the file: the bytes that
\* were left have been consumed.
EofPosition(bytes, pos) == Len(bytes)

\* File::write at the cursor: overwrites what is there, extends the file.
WriteAt(bytes, pos, new) ==
    SubSeq(bytes, 1, pos) \o new \o SubSeq(bytes, pos + Len(new) + 1, Len(bytes))

\* Loop headers that leave for the encoder after the first window (a
\* mutation of Advance: chunk_limit is ignored).
AdvanceOneWindow ==
    IF chunk + 1 < chunk_size
    THEN /\ chunk' = chunk + 1
         /\ pc' = "lookup"
         /\ UNCHANGED << chunk_index, seed_sample >>
    ELSE /\ chunk' = 0
         /\ chunk_index' = chunk_index + 1
         /\ seed_sample' = << >>
         /\ pc' = "create_out"

\* The loop headers: the next record of the window, the next window, or
\* the encoder.
Advance ==
    IF chunk + 1 < chunk_size
    THEN /\ chunk' = chunk + 1
         /\ pc' = "lookup"
         /\ UNCHANGED << chunk_index, seed_sample >>
    ELSE /\ chunk' = 0
         /\ chunk_index' = chunk_index + 1
         /\ seed_sample' = << >>
         /\ pc' = IF chunk_index + 1 < chunk_limit THEN "read_chunk"
                  ELSE "create_out"

(***************************************************************************)
(* The orchestrating thread.                                               *)
(***************************************************************************)
\* entrypoint and the option handling of run.
ParseArgs ==
    /\ pc = "start"
    /\ IF CmdArgsError(opts) # "none"
       THEN /\ Fail(CmdArgsError(opts))
            /\ UNCHANGED << threads_count, div_start >>
       ELSE /\ threads_count' = OptOr(opts.threads, DefaultThreads)[1]
            /\ div_start' = OptOr(opts.div_start, DefaultDivStart)[1]
            /\ pc' = "open"
            /\ err' = err
    /\ UNCHANGED << opts, files, cache_pos, words_count, window, results,
                    episode, enc_i, wrapped, history >>

\* File::open(in_db), metadata, and the cache's OpenOptions..create(true).
OpenFiles ==
    /\ pc = "open"
    /\ in_db_exists
    /\ words_count' = WordsCount(in_db)
    /\ cache_exists' = TRUE
    /\ cache_pos' = 0
    /\ pc' = IF chunk_limit > 0 THEN "read_chunk" ELSE "create_out"
    /\ UNCHANGED << opts, in_db_exists, in_db, cache, out_exists, out_db, err,
                    threads_count, div_start, window, results, episode,
                    enc_i, wrapped, history >>

\* One of the three opens fails: the input database is missing or
\* unreadable, its metadata cannot be read, or the cache cannot be opened.
OpenFails ==
    /\ pc = "open"
    /\ \E e \in { "InDbOpen", "InDbMeta", "CacheOpen" } :
          /\ (~in_db_exists => e = "InDbOpen")
          /\ Fail(e)
    /\ UNCHANGED << opts, files, cache_pos, config, window, results, episode,
                    enc_i, wrapped, history >>

\* The read loop of one window.
ReadChunk ==
    /\ pc = "read_chunk"
    /\ seed_sample' = ReadWindow(in_db, words_count, chunk_index)
    /\ pc' = "lookup"
    /\ UNCHANGED << opts, files, cache_pos, err, config, chunk_index, chunk,
                    results, episode, enc_i, wrapped, history >>

\* The seek to the start fails, or a row cannot be read in full.
ReadChunkFails ==
    /\ pc = "read_chunk"
    /\ \E e \in { "InDbSeek", "InDbRead" } :
          /\ (e = "InDbRead" => words_count > 0)
          /\ Fail(e)
    /\ UNCHANGED << opts, files, cache_pos, config, window, results, episode,
                    enc_i, wrapped, history >>

\* cache.read_i32 returns Ok(cached_div): the record's result is replayed.
CacheHit ==
    /\ pc = "lookup"
    /\ Len(cache) - cache_pos >= 4
    /\ LET cached_div == I32FromBytes(SubSeq(cache, cache_pos + 1, cache_pos + 4))
       IN  /\ min_div' = CachedMin(min_div, cached_div)
           /\ max_div' = CachedMax(max_div, cached_div)
           /\ divs_found' = Append(divs_found, cached_div)
           /\ origin' = Append(origin, "hit")
    /\ cache_pos' = cache_pos + 4
    /\ Advance
    /\ UNCHANGED << opts, files, err, config, episode, enc_i, wrapped, history >>

\* cache.read_i32 hits the end of the file: read_exact has consumed what
\* was left, the record must be computed.
CacheMiss ==
    /\ pc = "lookup"
    /\ Len(cache) - cache_pos < 4
    /\ cache_pos' = EofPosition(cache, cache_pos)
    /\ pc' = "zero_check"
    /\ UNCHANGED << opts, files, err, config, window, results, episode,
                    enc_i, wrapped, history >>

\* cache.read_i32 fails with another error.
CacheReadFails ==
    /\ pc = "lookup"
    /\ Fail("CacheRead")
    /\ UNCHANGED << opts, files, cache_pos, config, window, results, episode,
                    enc_i, wrapped, history >>

\* The zero scan found a zero: the sentinel is pushed, no search.
ZeroPath ==
    /\ pc = "zero_check"
    /\ ZeroFound(Column(seed_sample, words_count, chunk))
    /\ divs_found' = Append(divs_found, 0)
    /\ origin' = Append(origin, "zero")
    /\ pc' = "write_cache"
    /\ UNCHANGED << opts, files, cache_pos, err, config, window, min_div,
                    max_div, episode, enc_i, wrapped, history >>

\* No zero: the atomics are created and threads_count workers are spawned.
Spawn ==
    /\ pc = "zero_check"
    /\ ~ZeroFound(Column(seed_sample, words_count, chunk))
    /\ div' = div_start
    /\ pass' = FALSE
    /\ rdiv' = 0
    /\ wpc' = [ w \in 1..threads_count |-> "load_pass" ]
    /\ current_div' = [ w \in 1..threads_count |-> 0 ]
    /\ claimed' = << >>
    /\ late' = [ w \in 1..threads_count |-> 0 ]
    /\ pc' = "search"
    /\ UNCHANGED << opts, files, cache_pos, err, config, window, results,
                    enc_i, wrapped, history >>

(***************************************************************************)
(* The workers of one search episode (the closure given to scope.spawn).   *)
(***************************************************************************)
\* The test loop over the record's hash values, in order, with its break:
\* "panic" when a remainder that is evaluated panics, "found" when the
\* candidate divides a hash value, "passes" when it divides none.
RECURSIVE TestCandidate(_, _)
TestCandidate(col, d) ==
    IF col = << >> THEN "passes"
    ELSE IF RemPanics(Head(col), d) THEN "panic"
    ELSE IF Rem(Head(col), d) = 0 THEN "found"
    ELSE TestCandidate(Tail(col), d)

\* A load that may miss even the worker's own store (a mutation of
\* PassLoad).
PassLoadMissesOwn(own) == IF ~pass THEN { FALSE } ELSE BOOLEAN

\* The values pass.load(Relaxed) may return.  The load is relaxed and is
\* ordered with nothing but the worker's own accesses to the flag: after
\* its own pass.store(true) a worker reads true; after another worker's
\* store it may still read the initial false, and nothing bounds how often.
PassLoad(own) ==
    IF ~pass THEN { FALSE } ELSE IF own THEN { TRUE } ELSE BOOLEAN

\* while !pass.load(Relaxed)
LoadPass(w) ==
    /\ pc = "search"
    /\ wpc[w] \in { "load_pass", "load_pass_own" }
    /\ \E seen \in PassLoad(wpc[w] = "load_pass_own") :
          wpc' = [wpc EXCEPT ![w] = IF seen THEN "exited" ELSE "claim"]
    /\ UNCHANGED << opts, files, cache_pos, pc, err, config, window, results,
                    div, pass, rdiv, current_div, claimed, late, enc_i,
                    wrapped, history >>

\* A worker that leaves the loop when its candidate divides a hash value
\* instead of trying the next one (a mutation of Claim).
ClaimGivesUp(w) ==
    /\ pc = "search"
    /\ wpc[w] = "claim"
    /\ current_div' = [current_div EXCEPT ![w] = div]
    /\ div' = WrappingInc(div)
    /\ claimed' = Append(claimed, div)
    /\ late' = [late EXCEPT ![w] = IF pass THEN @ + 1 ELSE @]
    /\ LET t == TestCandidate(Column(seed_sample, words_count, chunk), div)
       IN  wpc' = [wpc EXCEPT ![w] =
                     IF t = "panic" THEN "panicked"
                     ELSE IF t = "found" THEN "exited"
                     ELSE "store_pass"]
    /\ UNCHANGED << opts, files, cache_pos, pc, err, config, window, results,
                    pass, rdiv, enc_i, wrapped, history >>

\* A counter whose increment is lost when another worker is about to
\* claim as well: a load and a store in place of fetch_add (a mutation of
\* Claim).
ClaimLostUpdate(w) ==
    /\ pc = "search"
    /\ wpc[w] = "claim"
    /\ current_div' = [current_div EXCEPT ![w] = div]
    /\ div' = IF \E v \in 1..Len(wpc) : v # w /\ wpc[v] = "claim"
              THEN div ELSE WrappingInc(div)
    /\ claimed' = Append(claimed, div)
    /\ late' = [late EXCEPT ![w] = IF pass THEN @ + 1 ELSE @]
    /\ LET t == TestCandidate(Column(seed_sample, words_count, chunk), div)
       IN  wpc' = [wpc EXCEPT ![w] =
                     IF t = "panic" THEN "panicked"
                     ELSE IF t = "found" THEN "load_pass"
                     ELSE "store_pass"]
    /\ UNCHANGED << opts, files, cache_pos, pc, err, config, window, results,
                    pass, rdiv, enc_i, wrapped, history >>

\* div.fetch_add(1, Relaxed) as i32, and the test of the claimed candidate
\* against the record's (immutable) hash values.
Claim(w) ==
    /\ pc = "search"
    /\ wpc[w] = "claim"
    /\ current_div' = [current_div EXCEPT ![w] = div]
    /\ div' = WrappingInc(div)
    /\ claimed' = Append(claimed, div)
    /\ late' = [late EXCEPT ![w] = IF pass THEN @ + 1 ELSE @]
    /\ LET t == TestCandidate(Column(seed_sample, words_count, chunk), div)
       IN  wpc' = [wpc EXCEPT ![w] =
                     IF t = "panic" THEN "panicked"
                     ELSE IF t = "found" THEN "load_pass"
                     ELSE "store_pass"]
    /\ UNCHANGED << opts, files, cache_pos, pc, err, config, window, results,
                    pass, rdiv, enc_i, wrapped, history >>

\* pass.store(true, SeqCst)
StorePass(w) ==
    /\ pc = "search"
    /\ wpc[w] = "store_pass"
    /\ pass' = TRUE
    /\ wpc' = [wpc EXCEPT ![w] = "store_rdiv"]
    /\ UNCHANGED << opts, files, cache_pos, pc, err, config, window, results,
                    div, rdiv, current_div, claimed, late, enc_i,
                    wrapped, history >>

\* A worker that sets the flag and leaves the result slot as it is (a
\* mutation of StoreRdiv).
StoreRdivLost(w) ==
    /\ pc = "search"
    /\ wpc[w] = "store_rdiv"
    /\ wpc' = [wpc EXCEPT ![w] = "load_pass_own"]
    /\ UNCHANGED << opts, files, cache_pos, pc, err, config, window, results,
                    div, pass, rdiv, current_div, claimed, late, enc_i,
                    wrapped, history >>

\* rdiv.store(current_div as isize, SeqCst); the worker goes back to the
\* loop condition, now having set the flag itself.
StoreRdiv(w) ==
    /\ pc = "search"
    /\ wpc[w] = "store_rdiv"
    /\ rdiv' = current_div[w]
    /\ wpc' = [wpc EXCEPT ![w] = "load_pass_own"]
    /\ UNCHANGED << opts, files, cache_pos, pc, err, config, window, results,
                    div, pass, current_div, claimed, late, enc_i,
                    wrapped, history >>

Worker(w) == LoadPass(w) \/ Claim(w) \/ StorePass(w) \/ StoreRdiv(w)

(***************************************************************************)
(* The orchestrating thread, after the scope.                              *)
(***************************************************************************)
\* crossbeam::scope returns once every worker has ended; the result slot
\* is read, the trackers are updated and the result is pushed.  A worker
\* that panicked makes the join panic.
Join ==
    /\ pc = "search"
    /\ \A w \in 1..Len(wpc) : wpc[w] \in { "exited", "panicked" }
    /\ IF \E w \in 1..Len(wpc) : wpc[w] = "panicked"
       THEN /\ pc' = "panic"
            /\ UNCHANGED results
       ELSE LET result_div == rdiv
            IN  /\ min_div' = FreshMin(min_div, result_div)
                /\ max_div' = FreshMax(max_div, result_div)
                /\ divs_found' = Append(divs_found, result_div)
                /\ origin' = Append(origin, "search")
                /\ pc' = "write_cache"
    /\ div' = 0 /\ pass' = FALSE /\ rdiv' = 0
    /\ wpc' = << >> /\ current_div' = << >> /\ claimed' = << >>
    /\ late' = << >>
    /\ UNCHANGED << opts, files, cache_pos, err, config, window, enc_i,
                    wrapped, history >>

\* cache.write_i32(result) and flush, of the result just pushed.
WriteCache ==
    /\ pc = "write_cache"
    /\ cache' = WriteAt(cache, cache_pos, I32ToBytes(divs_found[Len(divs_found)]))
    /\ cache_pos' = cache_pos + 4
    /\ Advance
    /\ UNCHANGED << opts, in_db_exists, in_db, cache_exists, out_exists,
                    out_db, err, config, results, episode, enc_i, wrapped,
                    history >>

\* The write fails, after write_all has put n of the 4 bytes in the file.
CacheWriteFails ==
    /\ pc = "write_cache"
    /\ \E n \in 0..3 :
          /\ cache' = WriteAt(cache, cache_pos,
                              SubSeq(I32ToBytes(divs_found[Len(divs_found)]), 1, n))
          /\ cache_pos' = cache_pos + n
    /\ Fail("CacheWrite")
    /\ UNCHANGED << opts, in_db_exists, in_db, cache_exists, out_exists,
                    out_db, config, window, results, episode, enc_i, wrapped,
                    history >>

(***************************************************************************)
(* The encoder.                                                            *)
(***************************************************************************)
\* File::create(out_db_filename): creates or truncates.
CreateOut ==
    /\ pc = "create_out"
    /\ out_exists' = TRUE
    /\ out_db' = << >>
    /\ enc_i' = 0
    /\ pc' = "encode"
    /\ UNCHANGED << opts, in_db_exists, in_db, cache_exists, cache, cache_pos,
                    err, config, window, results, episode, wrapped, history >>

CreateOutFails ==
    /\ pc = "create_out"
    /\ Fail("OutDbCreate")
    /\ UNCHANGED << opts, files, cache_pos, config, window, results, episode,
                    enc_i, wrapped, history >>

\* `div - min_div + 1` overflows i32 (a panic with overflow checks on).
RebaseOverflows(d, m) ==
    d # 0 /\ (SubOverflows(d, m) \/ WrappingSub(d, m) = I32Max)

\* The value of `if div == 0 { 0 } else { div - min_div + 1 }`, wrapping.
Rebase(d, m) == IF d = 0 THEN 0 ELSE WrappingInc(WrappingSub(d, m))

\* assert!(value <= std::u16::MAX as i32)
AssertPasses(value) == value <= U16Max

\* One iteration of the output loop: the value passes the assertion and
\* is written as u16.
EncodeWrite ==
    /\ pc = "encode"
    /\ enc_i < Len(divs_found)
    /\ LET d == divs_found[enc_i + 1]
           value == Rebase(d, min_div)
       IN  /\ AssertPasses(value)
           /\ out_db' = Append(out_db, AsU16(value))
           /\ wrapped' = (wrapped \/ RebaseOverflows(d, min_div))
    /\ enc_i' = enc_i + 1
    /\ UNCHANGED << opts, in_db_exists, in_db, cache_exists, cache, cache_pos,
                    out_exists, pc, err, config, window, results, episode,
                    history >>

\* The iteration panics: the subtraction overflows in a build with
\* overflow checks, or assert!(value <= u16::MAX) fails.
EncodePanics ==
    /\ pc = "encode"
    /\ enc_i < Len(divs_found)
    /\ LET d == divs_found[enc_i + 1]
       IN  \/ RebaseOverflows(d, min_div) /\ ~wrapped /\ wrapped' = wrapped
           \/ /\ ~AssertPasses(Rebase(d, min_div))
              /\ wrapped' = (wrapped \/ RebaseOverflows(d, min_div))
    /\ pc' = "panic"
    /\ UNCHANGED << opts, files, cache_pos, err, config, window, results,
                    episode, enc_i, history >>

\* out_db.write_u16 fails.
OutDbWriteFails ==
    /\ pc = "encode"
    /\ enc_i < Len(divs_found)
    /\ LET d == divs_found[enc_i + 1]
       IN  /\ AssertPasses(Rebase(d, min_div))
           /\ wrapped' = (wrapped \/ RebaseOverflows(d, min_div))
    /\ Fail("OutDbWrite")
    /\ UNCHANGED << opts, files, cache_pos, config, window, results, episode,
                    enc_i, history >>

\* The loop is over: run returns Ok(()).
Finish ==
    /\ pc = "encode"
    /\ enc_i = Len(divs_found)
    /\ pc' = "exit0"
    /\ UNCHANGED << opts, files, cache_pos, err, config, window, results,
                    episode, enc_i, wrapped, history >>

(***************************************************************************)
(* The environment: the process is killed and started again with the same  *)
(* command line; the files stay as they are.                               *)
(***************************************************************************)
Restart ==
    /\ pc # "start"
    /\ run_no < MaxRuns
    /\ pc' = "start"
    /\ err' = "none"
    /\ threads_count' = 0 /\ div_start' = 0 /\ words_count' = 0
    /\ chunk_index' = 0 /\ chunk' = 0 /\ seed_sample' = << >>
    /\ divs_found' = << >> /\ min_div' = I32Max /\ max_div' = -1
    /\ origin' = << >>
    /\ div' = 0 /\ pass' = FALSE /\ rdiv' = 0
    /\ wpc' = << >> /\ current_div' = << >> /\ claimed' = << >>
    /\ late' = << >>
    /\ enc_i' = 0
    /\ wrapped' = FALSE
    /\ cache_pos' = 0
    /\ cache_start' = cache
    /\ run_no' = run_no + 1
    /\ UNCHANGED << opts, files >>

(***************************************************************************)
(* Specifications.                                                         *)
(***************************************************************************)
Next ==
    \/ ParseArgs
    \/ OpenFiles
    \/ OpenFails
    \/ ReadChunk
    \/ ReadChunkFails
    \/ CacheHit
    \/ CacheMiss
    \/ CacheReadFails
    \/ ZeroPath
    \/ Spawn
    \/ \E w \in 1..Len(wpc) : Worker(w)
    \/ Join
    \/ WriteCache
    \/ CacheWriteFails
    \/ CreateOut
    \/ CreateOutFails
    \/ EncodeWrite
    \/ EncodePanics
    \/ OutDbWriteFails
    \/ Finish

\* One run of the program on any command line, database and cache file.
Spec == Init /\ [][Next]_vars

\* The steps of the orchestrating thread, and the steps of worker w.
Orchestrator ==
    \/ ParseArgs \/ OpenFiles \/ OpenFails \/ ReadChunk \/ ReadChunkFails
    \/ CacheHit \/ CacheMiss \/ CacheReadFails \/ ZeroPath \/ Spawn \/ Join
    \/ WriteCache \/ CacheWriteFails \/ CreateOut \/ CreateOutFails
    \/ EncodeWrite \/ EncodePanics \/ OutDbWriteFails \/ Finish

WorkerStep(w) == w \in 1..Len(wpc) /\ Worker(w)

\* One run under a fair scheduler: a thread that can take a step is not
\* kept from it forever.
SpecFair ==
    /\ Spec
    /\ WF_vars(Orchestrator)
    /\ \A w \in 1..MaxThreads : WF_vars(WorkerStep(w))

NextResume == Next \/ Restart

\* Runs that start without cached results and may be killed and started
\* again with the same command line.
InitResume == Init /\ opts \in GoodCmdLines /\ cache = << >>
SpecResume == InitResume /\ [][NextResume]_vars

(***************************************************************************)
(* Vocabulary of the properties.                                           *)
(***************************************************************************)
\* The hash values of the k-th record (k = 1 is the first column), taken
\* from the database file itself.
RecordHashes(k) ==
    [ i \in 1..WordsCount(in_db) |-> in_db[(i - 1) * row_len + k] ]

HasZero(k) == \E i \in 1..WordsCount(in_db) : RecordHashes(k)[i] = 0

\* d divides none of the hash values of record k (no remainder is 0 or
\* undefined).
DividesNone(d, k) ==
    \A i \in 1..WordsCount(in_db) :
        /\ ~RemPanics(RecordHashes(k)[i], d)
        /\ Rem(RecordHashes(k)[i], d) # 0

\* The records that have a result so far.
Done == 1..Len(divs_found)

\* The record being processed (once the record loop runs).
Current == Len(divs_found) + 1

\* How many of the records 1..k were computed in this run (not replayed).
Computed(k) == Cardinality({ j \in 1..k : origin[j] # "hit" })

\* The byte offset at which this run writes the result of a computed
\* record k: after the file as it was at the first miss.
WriteOffset(k) == Len(cache_start) + 4 * (Computed(k) - 1)

\* The write of record k's result has completed.
IsWritten(k) ==
    /\ k \in Done
    /\ origin[k] # "hit"
    /\ (k = Len(divs_found) => pc # "write_cache" /\ err # "CacheWrite")

\* The 4-byte entry at byte offset off of the cache file.
EntryAt(off) == I32FromBytes(SubSeq(cache, off + 1, off + 4))

(***************************************************************************)
(* C1.  Every result taken from the parallel search (cache miss, no zero   *)
(* hash) is >= div_start and divides no hash value of its record, for      *)
(* every interleaving of the workers.                                      *)
(***************************************************************************)
C1_SearchResultValid ==
    \A k \in Done :
        origin[k] = "search" =>
            /\ divs_found[k] >= div_start
            /\ DividesNone(divs_found[k], k)

(***************************************************************************)
(* C2.  A record that misses the cache and has a zero hash value gets the  *)
(* sentinel 0 for every div_start: it takes the zero path, no worker is    *)
(* spawned and no candidate is claimed for it, 0 is what is appended to    *)
(* the cache, and 0 is its output value.                                   *)
(***************************************************************************)
C2_ZeroRecordIsSentinel ==
    /\ \A k \in Done :
          (origin[k] # "hit" /\ HasZero(k)) =>
              /\ origin[k] = "zero"
              /\ divs_found[k] = 0
              /\ IsWritten(k) =>
                    /\ Len(cache) >= WriteOffset(k) + 4
                    /\ EntryAt(WriteOffset(k)) = 0
              /\ Len(out_db) >= k => out_db[k] = 0
    /\ pc = "search" => ~HasZero(Current)
    /\ (pc = "zero_check" /\ HasZero(Current)) => (wpc = << >> /\ claimed = << >>)

\* A run with a non-default div_start has finished; a record whose only
\* zero is in the second row was computed, cached as 0 and written as 0.
C2_Witness ==
    /\ pc = "exit0"
    /\ div_start = 2
    /\ threads_count = 2
    /\ \E k \in Done :
          /\ origin[k] = "zero"
          /\ RecordHashes(k)[1] # 0
          /\ EntryAt(WriteOffset(k)) = 0
          /\ out_db[k] = 0

(***************************************************************************)
(* C3.  Resumption equivalence: a run that was interrupted after some      *)
(* records and started again with the intact cache and the same command    *)
(* line writes the output that a single uninterrupted run writes for the   *)
(* same raw results.                                                       *)
(***************************************************************************)
\* min_div of a run that computes every one of the first n raw results
\* itself: the zero path leaves the tracker alone, the search path applies
\* FreshMin.
RECURSIVE OnePassMin(_)
OnePassMin(n) ==
    IF n = 0 THEN I32Max
    ELSE IF HasZero(n) THEN OnePassMin(n - 1)
    ELSE FreshMin(OnePassMin(n - 1), divs_found[n])

\* What that run writes for record k.
OnePassValue(k) == Rebase(divs_found[k], OnePassMin(Len(divs_found)))

C3_ResumptionEquivalence ==
    (pc = "exit0" /\ Len(cache_start) % 4 = 0) =>
        /\ Len(out_db) = Len(divs_found)
        /\ \A k \in Done :
              /\ AssertPasses(OnePassValue(k))
              /\ out_db[k] = AsU16(OnePassValue(k))

(***************************************************************************)
(* C4.  Rebasing law: when the run completes, the k-th output value is 0   *)
(* if the k-th raw result is the sentinel 0 and (raw result k) - min + 1   *)
(* otherwise, where min is the minimum of all non-sentinel raw results of  *)
(* the run, cached and computed alike.                                     *)
(***************************************************************************)
NonSentinel == { k \in Done : divs_found[k] # 0 }

\* m is the minimum of the non-sentinel raw results.
IsTrueMin(m) ==
    /\ \E k \in NonSentinel : divs_found[k] = m
    /\ \A k \in NonSentinel : divs_found[k] >= m

\* o = d - m + 1 over the integers.
IsRebased(o, d, m) == ~SubOverflows(d, m) /\ d - m = o - 1

C4_RebasingLaw ==
    pc = "exit0" =>
        /\ Len(out_db) = Len(divs_found)
        /\ \A k \in Done :
              IF divs_found[k] = 0 THEN out_db[k] = 0
              ELSE \A m \in { divs_found[j] : j \in NonSentinel } :
                      IsTrueMin(m) => IsRebased(out_db[k], divs_found[k], m)

(***************************************************************************)
(* C5.  If the rebased value of a record (its raw result - min + 1)        *)
(* exceeds 65535, the encoder aborts at that record: no value is ever      *)
(* written for that record or a later one, and the run does not complete.  *)
(***************************************************************************)
\* d - m + 1 > 65535 in the integers, for a non-sentinel d.
RebasedExceeds(d, m) ==
    /\ d # 0
    /\ m <= I32Max - U16Max
    /\ d >= m + U16Max

C5_EncoderAbortsAboveU16 ==
    \A k \in Done :
        (/\ pc \in { "encode", "exit0", "exit1", "panic" }
         /\ Len(divs_found) = TotalRecords
         /\ RebasedExceeds(divs_found[k], min_div))
        => (Len(out_db) < k /\ pc # "exit0")

(***************************************************************************)
(* C6.  Every value the encoder converts and writes fits in 16 bits        *)
(* unsigned: for any cache contents, a rebased value outside 0..65535      *)
(* (above, or negative) is never written.                                  *)
(***************************************************************************)
C6_WrittenValuesFitU16 ==
    \A k \in 1..Len(out_db) :
        Len(divs_found) = TotalRecords =>
            /\ Rebase(divs_found[k], min_div) >= 0
            /\ Rebase(divs_found[k], min_div) <= U16Max

(***************************************************************************)
(* C7.  Cache durability: whenever the orchestrator begins a record, the   *)
(* cache file holds an entry for every earlier record, and its i-th entry  *)
(* is the raw result recorded for record i.                                *)
(***************************************************************************)
C7_CacheMatchesResults ==
    pc = "lookup" =>
        /\ Len(cache) >= 4 * Len(divs_found)
        /\ \A i \in Done : EntryAt(4 * (i - 1)) = divs_found[i]

(***************************************************************************)
(* C8.  The cache is append-only: what was in the file when the run        *)
(* started stays unchanged, the length never decreases, every step that    *)
(* changes the file only adds bytes after its end, and every write         *)
(* happens with the cursor at the end of the file.                         *)
(***************************************************************************)
IsPrefix(a, b) == Len(a) <= Len(b) /\ SubSeq(b, 1, Len(a)) = a

C8_CacheAppendOnly ==
    /\ [][IsPrefix(cache, cache')]_vars
    /\ [](IsPrefix(cache_start, cache))
    /\ [](pc = "write_cache" => cache_pos = Len(cache))

\* A run that found a cache ending in a torn entry has appended results
\* after it and finished.
C8_Witness ==
    /\ pc = "exit0"
    /\ Len(cache_start) % 4 # 0
    /\ Len(cache) >= Len(cache_start) + 4

(***************************************************************************)
(* C9.  The sentinel 0 is a record's result only when the record has a     *)
(* zero hash: for every thread count and every div_start, a computed       *)
(* record without a zero hash gets a nonzero result >= div_start.          *)
(***************************************************************************)
C9_ZeroOnlyForZeroHash ==
    \A k \in Done :
        (origin[k] # "hit" /\ ~HasZero(k)) =>
            /\ divs_found[k] # 0
            /\ divs_found[k] >= div_start

(***************************************************************************)
(* C10.  Min/max trackers: min_div is the minimum and max_div the maximum  *)
(* of the non-sentinel raw results pushed so far (i32::MAX and -1 when     *)
(* there is none), so a sentinel never changes either tracker.             *)
(***************************************************************************)
C10_TrackersAreMinMax ==
    IF NonSentinel = { } THEN min_div = I32Max /\ max_div = -1
    ELSE /\ \E k \in NonSentinel : divs_found[k] = min_div
         /\ \A k \in NonSentinel : divs_found[k] >= min_div
         /\ \E k \in NonSentinel : divs_found[k] = max_div
         /\ \A k \in NonSentinel : divs_found[k] <= max_div

(***************************************************************************)
(* C11.  A configuration error (a missing db-in, db-out or calc-cache      *)
(* flag, an unparseable threads or div-start value, a command line getopts *)
(* rejects) is detected before any file is opened or created: the run can  *)
(* only end with exit status 1 and a CmdArgs/Getopts error, and no step    *)
(* creates or modifies the input database, the cache or the output file.   *)
(***************************************************************************)
ConfigErrors ==
    { "Getopts", "NoInDbFileProvided", "NoOutDbFileProvided",
      "NoCalcCacheFileProvided", "InvalidThreadsValue", "InvalidDivStartValue" }

C11_ConfigErrorTouchesNoFile ==
    /\ [](opts \in BadCmdLines =>
            /\ pc \in { "start", "exit1" }
            /\ (pc = "exit1" => err \in ConfigErrors)
            /\ ~out_exists)
    /\ [][(opts \in BadCmdLines) => (files' = files)]_vars

\* The run has ended on an unparseable div-start value; the cache file
\* named on the command line did not exist and still does not.
C11_Witness ==
    /\ pc = "exit1"
    /\ err = "InvalidDivStartValue"
    /\ in_db_exists
    /\ ~cache_exists
    /\ ~out_exists

(***************************************************************************)
(* C12.  Cache hits form a prefix of the run: with K complete entries in   *)
(* the cache at startup, exactly the first min(K, TotalRecords) records    *)
(* are hits, each taking the K-th entry as it is (no zero check, no        *)
(* worker, no cache write); every later record is computed and appended;   *)
(* after a miss no record of the run is a hit.                             *)
(***************************************************************************)
\* The complete entries of the cache file found at startup.
StartEntries == Len(cache_start) \div 4

\* The k-th of them.
StartEntry(k) == I32FromBytes(SubSeq(cache_start, 4 * k - 3, 4 * k))

C12_CacheHitsArePrefix ==
    /\ \A k \in Done :
          /\ origin[k] = "hit" <=> k <= StartEntries
          /\ origin[k] = "hit" => divs_found[k] = StartEntry(k)
          /\ IsWritten(k) => /\ Len(cache) >= WriteOffset(k) + 4
                             /\ EntryAt(WriteOffset(k)) = divs_found[k]
    /\ pc \in { "zero_check", "search" } => Len(divs_found) >= StartEntries
    /\ pc = "write_cache" => Len(divs_found) > StartEntries
    /\ Len(divs_found) <= StartEntries => cache = cache_start
    /\ Len(divs_found) < StartEntries => wpc = << >> /\ claimed = << >>

\* A finished run whose second record has a zero hash and was replayed as
\* the cached 3, and whose last record was computed.
C12_Witness ==
    /\ pc = "exit0"
    /\ StartEntries = 2
    /\ HasZero(2) /\ origin[2] = "hit" /\ divs_found[2] = 3
    /\ origin[TotalRecords] # "hit"

(***************************************************************************)
(* C13.  Fork-join barrier per record: workers exist only while the        *)
(* orchestrator waits in the scope, threads_count of them; each episode    *)
(* starts with counter = div_start, flag false, result slot 0; the         *)
(* orchestrator touches the trackers, the results buffer or the cache      *)
(* only when every worker has terminated; and with at least one worker     *)
(* the result it pushes is the slot's value, a candidate that a worker     *)
(* claimed in this episode and stored after it passed the test.            *)
(***************************************************************************)
AllWorkersExited == \A w \in 1..Len(wpc) : wpc[w] = "exited"

\* v was claimed in the current episode and divides no hash of the record.
StoredByWorker(v) ==
    /\ \E i \in 1..Len(claimed) : claimed[i] = v
    /\ TestCandidate(RecordHashes(Current), v) = "passes"

C13_ForkJoinBarrier ==
    /\ [](wpc # << >> => pc = "search")
    /\ [](pc = "search" => Len(wpc) = threads_count)
    /\ [][(pc = "zero_check" /\ pc' = "search")
            => (/\ div' = div_start /\ pass' = FALSE /\ rdiv' = 0
                /\ claimed' = << >>
                /\ \A w \in 1..Len(wpc') : wpc'[w] = "load_pass")]_vars
    /\ [][(results' # results \/ cache' # cache) => AllWorkersExited]_vars
    /\ [][(pc = "search" /\ divs_found' # divs_found)
            => (/\ divs_found' = Append(divs_found, rdiv)
                /\ (threads_count >= 1 => StoredByWorker(rdiv)))]_vars

\* The result of a two-worker episode that started at 1 has been pushed:
\* it is 3, stored last by the worker that claimed it.
C13_Witness ==
    /\ pc = "write_cache"
    /\ threads_count = 2
    /\ div_start = 1
    /\ origin[Len(origin)] = "search"
    /\ divs_found[Len(divs_found)] = 3

(***************************************************************************)
(* C14.  Within one search episode no two workers test the same            *)
(* candidate: the values obtained by fetch_add are pairwise distinct, and  *)
(* the n-th value obtained is div_start + (n - 1): consecutive, no gap.    *)
(* (A candidate is that value cast to i32.)                                *)
(***************************************************************************)
\* div_start + n as the code's `as i32` shows it.
RECURSIVE CounterAsI32(_)
CounterAsI32(n) ==
    IF n = 0 THEN div_start
    ELSE LET p == CounterAsI32(n - 1)
         IN  IF p = I32Max THEN I32Min ELSE p + 1

C14_CandidatesDistinctConsecutive ==
    /\ \A i, j \in 1..Len(claimed) : i # j => claimed[i] # claimed[j]
    /\ \A i \in 1..Len(claimed) : claimed[i] = CounterAsI32(i - 1)
    /\ pc = "search" => div = CounterAsI32(Len(claimed))
    /\ \A w \in 1..Len(wpc) :
          wpc[w] \in { "store_pass", "store_rdiv" } =>
              Cardinality({ v \in 1..Len(wpc) : current_div[v] = current_div[w]
                              /\ wpc[v] \in { "store_pass", "store_rdiv" } }) = 1

\* Two workers have claimed three candidates between them, the second
\* worker the middle one.
C14_Witness ==
    /\ pc = "search"
    /\ Len(claimed) = 3
    /\ Len(wpc) = 2
    /\ current_div[2] = claimed[2]
    /\ current_div[1] = claimed[3]

(***************************************************************************)
(* C15.  The result of a search is not guaranteed to be the smallest       *)
(* qualifying divisor: with two or more workers a larger passing candidate *)
(* can be stored last (C15_LargerThanSmallest is reachable); but the       *)
(* result is never smaller than the smallest integer >= div_start that     *)
(* divides no hash value of the record.                                    *)
(***************************************************************************)
\* Some integer in lo..hi divides no hash value of record k.
QualifiesWithin(lo, hi, k) == \E c \in lo..hi : DividesNone(c, k)

C15_ResultNotBelowSmallest ==
    \A k \in Done :
        origin[k] = "search" => QualifiesWithin(div_start, divs_found[k], k)

\* Two workers: the last record's result passes the test and is strictly
\* larger than a smaller integer >= div_start that passes it too.
C15_LargerThanSmallest ==
    /\ threads_count = 2
    /\ pc = "write_cache"
    /\ origin[Len(origin)] = "search"
    /\ Len(RecordHashes(Len(origin))) >= 1
    /\ DividesNone(divs_found[Len(origin)], Len(origin))
    /\ divs_found[Len(origin)] > div_start
    /\ QualifiesWithin(div_start, divs_found[Len(origin)] - 1, Len(origin))

(***************************************************************************)
(* C16.  With exactly one worker the search is deterministic and minimal:  *)
(* the result of a record without a zero hash is the smallest integer      *)
(* c >= div_start that divides none of its hash values, and exactly the    *)
(* candidates div_start..c are claimed, in that order.                     *)
(***************************************************************************)
\* r is the smallest integer >= div_start dividing no hash value of record k.
IsSmallestQualifying(r, k) ==
    /\ r >= div_start
    /\ DividesNone(r, k)
    /\ ~QualifiesWithin(div_start, r - 1, k)

C16_OneWorkerMinimal ==
    threads_count = 1 =>
        /\ \A k \in Done :
              origin[k] = "search" => IsSmallestQualifying(divs_found[k], k)
        /\ (pc = "search" /\ wpc = << "exited" >>) =>
              /\ IsSmallestQualifying(rdiv, Current)
              /\ claimed = [ i \in 1..(rdiv - div_start + 1) |-> div_start + i - 1 ]

\* One worker, div_start = 1, a record whose only hash is 7 (no zero):
\* the candidates 1, 2 were claimed and the result is 2.
C16_Witness ==
    /\ threads_count = 1
    /\ div_start = 1
    /\ pc = "search"
    /\ wpc = << "exited" >>
    /\ RecordHashes(Current) = << 7 >>
    /\ claimed = << 1, 2 >>
    /\ rdiv = 2

(***************************************************************************)
(* C17.  Once the found flag is set in a search episode it is never        *)
(* cleared, and from that moment each worker claims at most one further    *)
(* candidate (none, for a worker that has set the flag itself), so at most *)
(* threads_count - 1 candidates are claimed after the flag is set.         *)
(***************************************************************************)
RECURSIVE SumSeq(_)
SumSeq(q) == IF q = << >> THEN 0 ELSE Head(q) + SumSeq(Tail(q))

\* The flag is never cleared within an episode.
FlagStaysSet == (pc = "search" /\ pass /\ pc' = "search") => pass'

\* A worker that has set the flag itself claims no further candidate.
SetterClaimsNoMore ==
    \A w \in 1..Len(wpc) :
        (wpc[w] \in { "store_rdiv", "load_pass_own" } /\ pc' = "search")
            => (wpc'[w] \in { "store_rdiv", "load_pass_own", "exited" }
                /\ late'[w] = late[w])

C17_AtMostOneClaimAfterFlag ==
    /\ [][FlagStaysSet]_vars
    /\ [][SetterClaimsNoMore]_vars
    /\ [](\A w \in 1..Len(late) : late[w] <= 1)
    /\ [](pass => SumSeq(late) <= threads_count - 1)

(***************************************************************************)
(* C17, amended.  Once the flag is set it is never cleared; a worker that  *)
(* has set the flag itself claims no further candidate; a worker leaves    *)
(* the loop only by reading the flag as set, and claims nothing after      *)
(* that.  (A worker that has not yet read another worker's store may go    *)
(* on claiming: the load is relaxed.)                                      *)
(***************************************************************************)
\* A worker exits only when the flag is set, and stays exited.
ExitOnlyOnFlag ==
    \A w \in 1..Len(wpc) :
        pc' = "search" =>
            /\ (wpc[w] # "exited" /\ wpc'[w] = "exited") => pass
            /\ wpc[w] = "exited" => (wpc'[w] = "exited" /\ late'[w] = late[w])

C17_ObserversStopClaiming ==
    /\ [][FlagStaysSet]_vars
    /\ [][SetterClaimsNoMore]_vars
    /\ [][ExitOnlyOnFlag]_vars

\* The second worker set the flag and left without a further claim; the
\* first one claimed two candidates while the flag was set.
C17_Witness ==
    /\ pc = "search"
    /\ pass
    /\ Len(wpc) = 2
    /\ wpc[2] = "exited"
    /\ late = << 2, 0 >>

(***************************************************************************)
(* C18.  Search termination: with div_start >= 1 and at least one worker,  *)
(* under fair scheduling every search episode (its record has no zero      *)
(* hash) ends with all workers terminated and a stored result pushed, and  *)
(* the orchestrator gets through every record to the encoder unless an     *)
(* I/O error ends the run.                                                 *)
(***************************************************************************)
C18_EpisodeEnded ==
    /\ pc = "write_cache"
    /\ wpc = << >>
    /\ origin[Len(origin)] = "search"
    /\ DividesNone(divs_found[Len(divs_found)], Len(divs_found))

HoldsI32Min == \E i \in 1..words_count : RecordHashes(Current)[i] = I32Min

\* max|h| over the record in search (0 for a record without hash values).
MaxAbsHash ==
    LET hs == { Abs(RecordHashes(Current)[i]) : i \in 1..words_count }
    IN  IF hs = { } THEN 0 ELSE CHOOSE m \in hs : \A x \in hs : x <= m

\* max(div_start, max|h| + 1) + threads_count - 1 fits in i32.
BoundFits ==
    /\ ~HoldsI32Min
    /\ MaxAbsHash < I32Max
    /\ div_start - 1 <= I32Max - threads_count
    /\ MaxAbsHash <= I32Max - threads_count

CandidateBound ==
    (IF div_start > MaxAbsHash + 1 THEN div_start ELSE MaxAbsHash + 1)
        + threads_count - 1

\* The range, the absence of wrapping and of panicking remainders, where
\* the bound fits in i32.
InRangeWhereBoundFits ==
    BoundFits =>
        /\ \A i \in 1..Len(claimed) :
              /\ claimed[i] <= CandidateBound
              /\ claimed[i] > 0
              /\ \A j \in 1..words_count :
                    ~RemPanics(RecordHashes(Current)[j], claimed[i])
        /\ \A w \in 1..Len(wpc) : wpc[w] # "panicked"

C19_CandidateRange ==
    (pc = "search" /\ div_start >= 1) =>
        /\ \A i \in 1..Len(claimed) : claimed[i] >= div_start
        /\ InRangeWhereBoundFits

\* Two workers, div_start = 1, a record whose only hash is 1: the
\* candidates claimed are 1, 2, 3, the last one being the bound.
C19_Witness ==
    /\ pc = "search"
    /\ threads_count = 2
    /\ div_start = 1
    /\ RecordHashes(Current) = << 1 >>
    /\ claimed = << 1, 2, 3 >>
    /\ CandidateBound = 3

(***************************************************************************)
(* C20.  The output file is created once, and only when every record of    *)
(* every window has a raw result in divs_found; a run that ends on an      *)
(* input seek/read or cache read/write error has not created or written    *)
(* it, and every cache entry written before the error is still in the      *)
(* cache file (no rollback).                                               *)
(***************************************************************************)
\* The I/O errors of the window and record loops.
LoopErrors == { "InDbSeek", "InDbRead", "CacheRead", "CacheWrite" }

\* The output file is untouched: not created, nothing written.
OutputUntouched == ~out_exists /\ out_db = << >>

\* Every result whose cache write completed is in the file where it was
\* written, after what the file held when the run started.
WrittenEntriesKept ==
    /\ IsPrefix(cache_start, cache)
    /\ \A k \in Done :
          IsWritten(k) => /\ Len(cache) >= WriteOffset(k) + 4
                          /\ EntryAt(WriteOffset(k)) = divs_found[k]

C20_OutputOnlyAfterAllRecords ==
    /\ [](out_exists => /\ Len(divs_found) = TotalRecords
                        /\ pc \in { "encode", "exit0", "exit1", "panic" })
    /\ [](pc \in { "encode", "exit0" } => out_exists)
    /\ [][(out_exists' # out_exists \/ out_db' # out_db)
             => (pc \in { "create_out", "encode" }
                 /\ Len(divs_found) = TotalRecords)]_vars
    /\ [][out_exists => (out_exists' /\ pc' # "create_out")]_vars
    /\ []((pc = "exit1" /\ err \in LoopErrors) => OutputUntouched)
    /\ [](WrittenEntriesKept)
    /\ [][pc = "exit1" => cache' = cache]_vars

\* The run has ended on a failed cache write of the second record, after
\* the first record's result was computed and written: that entry is in
\* the cache file and there is no output file.
C20_Witness ==
    /\ pc = "exit1"
    /\ err = "CacheWrite"
    /\ Len(divs_found) = 2
    /\ origin[1] = "search"
    /\ IsWritten(1)
    /\ EntryAt(WriteOffset(1)) = divs_found[1]
    /\ OutputUntouched

=============================================================================
